---- MODULE Spec2Model ----
(***************************************************************************)
(* Trade-lifecycle monitor of src/app.py: the trade registry               *)
(* (active_trades, trade_history) guarded by trade_lock, the periodic      *)
(* sweep check_market_conditions with its three handlers, and the webhook  *)
(* path that creates trades from analyze_price_action.                     *)
(*                                                                         *)
(* Prices are integers.  position_size and winrate are advisory values     *)
(* that no transition reads; they are not carried in the trade record.     *)
(***************************************************************************)
EXTENDS Integers, Sequences, FiniteSets, TLC

\* ------------------------------------------------------------------ bounds
MaxLevel == 2        \* candle highs and lows range over 1..MaxLevel
MaxTime == 1         \* time.time() in whole seconds ranges over 0..MaxTime
MaxRequests == 2     \* number of trade-creating webhook requests served
MaxCalls == 2        \* get_deriv_data calls counted per key and second
MaxAlerts == 3       \* number of ALERT messages served

\* ------------------------------------------------------------- value sets
Symbols == {"BTCUSD", "EURUSD"}
Users == {"u1"}
AlertUsers == {"u1", "u2"}
Webhooks == {"w1", "w2"}
Sweep == "sweep"
Threads == {Sweep} \cup Webhooks
Free == "free"

Levels == 1..MaxLevel
EntryPrices == 0..(MaxLevel + 1)
MinPrice == 0 - 4 * MaxLevel
MaxPrice == (MaxLevel + 1) + 4 * MaxLevel
Prices == MinPrice..MaxPrice

TradeIds == Symbols \X (0..MaxTime)

\* A candle row of a fetched frame (time and open are never read).
Candles15 == {[high |-> hl[1], low |-> hl[2], close |-> hl[1]] :
                  hl \in {p \in Levels \X Levels : p[2] <= p[1]}}
Candles1 == {[high |-> p, low |-> p, close |-> p] : p \in EntryPrices}

\* A frame returned by get_deriv_data: ok = FALSE is None, otherwise the
\* rows newest first (index 1 here is .iloc[0]).
NoFrame == [ok |-> FALSE, rows |-> <<>>]
SeqsUpTo(S, n) == UNION {[1..k -> S] : k \in 0..n}
Frames15 == {NoFrame} \cup {[ok |-> TRUE, rows |-> r] : r \in SeqsUpTo(Candles15, 2)}
Frames1 == {NoFrame} \cup {[ok |-> TRUE, rows |-> r] : r \in SeqsUpTo(Candles1, 1)}
SweepFrames == {NoFrame, [ok |-> TRUE, rows |-> <<>>]} \cup
               {[ok |-> TRUE, rows |-> <<[high |-> p, low |-> p, close |-> p]>>] : p \in Prices}

EmptyDict == [j \in {} |-> 0]

\* get_deriv_data(symbol, interval): the pairs it is called with.
Intervals == {"15min", "1min"}
CacheKeys == Symbols \X Intervals

\* What analyze_price_action reads of its two frames.
NoAnalysis == [symbol |-> "", kind |-> "pending", prev_high |-> 0, prev_low |-> 0, price |-> 0]
NoAlert == [symbol |-> "", user |-> ""]

NoSignal == [signal |-> "None", entry |-> 0, sl |-> 0, tp1 |-> 0, tp2 |-> 0]
NoRequest == [id |-> <<"", 0>>, symbol |-> "", direction |-> "None", entry |-> 0,
              sl |-> 0, tp1 |-> 0, tp2 |-> 0, user |-> ""]

VARIABLES
    active_trades,   \* dict trade_id -> trade
    active_order,    \* insertion order of the keys of active_trades
    trade_history,   \* list of booleans, True = win
    trade_lock,      \* Free, or the thread holding the non-reentrant Lock
    now,             \* int(time.time())
    pc,              \* position of every thread
    keys,            \* sweep: list(active_trades.keys())
    idx,             \* sweep: position in keys
    current_price,   \* sweep: df['close'].iloc[0] of the trade being handled
    fetched,         \* sweep: what the last get_deriv_data of this sweep returned
    request,         \* webhook: the trade it is about to insert
    served,          \* number of trade-creating requests accepted so far
    opened,          \* history variable: number of insertions performed
    original_sl,     \* history variable: trade_id -> stop stored at creation
    seen,            \* history variable: ids the current sweep has passed
    calls,           \* history variable: key -> get_deriv_data calls in this second
    fetches,         \* history variable: key -> candle requests sent in this second
    an_in,           \* history variable: what the last analyze_price_action read
    an_out,          \* history variable: what the last analyze_price_action returned
    an_seq,          \* history variable: parity of the number of analyses
    user_alerts,     \* dict symbol -> list of subscribers
    previous_trends, \* dict symbol -> trend label
    alert_req,       \* webhook: the (symbol, user) of the ALERT message it handles
    alert_served,    \* number of ALERT messages accepted so far
    alerted_at_start \* history variable: symbols with a subscriber when the sweep began

aux == <<calls, fetches, an_in, an_out, an_seq, user_alerts, previous_trends,
         alert_req, alert_served, alerted_at_start>>

vars == <<active_trades, active_order, trade_history, trade_lock, now, pc, keys,
          idx, current_price, fetched, request, served, opened, original_sl, seen,
          aux>>

\* ------------------------------------------------------- analyze_price_action
\* Mutant: a close equal to the previous high is a breakout.
analyze_price_action_InclusiveBreakout(df_15m, df_1m) ==
    IF ~df_15m.ok \/ Len(df_15m.rows) < 2 THEN NoSignal
    ELSE IF ~df_1m.ok \/ Len(df_1m.rows) = 0 THEN NoSignal
    ELSE LET prev_high == df_15m.rows[2].high
             prev_low == df_15m.rows[2].low
             price == df_1m.rows[1].close
         IN  IF price >= prev_high
             THEN LET risk == price - prev_low
                  IN  [signal |-> "BUY", entry |-> price, sl |-> prev_low,
                       tp1 |-> price + 2 * risk, tp2 |-> price + 4 * risk]
             ELSE IF price < prev_low
             THEN LET risk == prev_high - price
                  IN  [signal |-> "SELL", entry |-> price, sl |-> prev_high,
                       tp1 |-> price - 2 * risk, tp2 |-> price - 4 * risk]
             ELSE NoSignal

\* Mutant: the second BUY target is at three times the risk.
analyze_price_action_WrongMultiple(df_15m, df_1m) ==
    IF ~df_15m.ok \/ Len(df_15m.rows) < 2 THEN NoSignal
    ELSE IF ~df_1m.ok \/ Len(df_1m.rows) = 0 THEN NoSignal
    ELSE LET prev_high == df_15m.rows[2].high
             prev_low == df_15m.rows[2].low
             price == df_1m.rows[1].close
         IN  IF price > prev_high
             THEN LET risk == price - prev_low
                  IN  [signal |-> "BUY", entry |-> price, sl |-> prev_low,
                       tp1 |-> price + 2 * risk, tp2 |-> price + 3 * risk]
             ELSE IF price < prev_low
             THEN LET risk == prev_high - price
                  IN  [signal |-> "SELL", entry |-> price, sl |-> prev_high,
                       tp1 |-> price - 2 * risk, tp2 |-> price - 4 * risk]
             ELSE NoSignal

\* Mutant: one analysis candle is taken as enough.
analyze_price_action_NoLengthCheck(df_15m, df_1m) ==
    IF ~df_15m.ok \/ Len(df_15m.rows) < 1 THEN NoSignal
    ELSE IF ~df_1m.ok \/ Len(df_1m.rows) = 0 THEN NoSignal
    ELSE LET prev_high == df_15m.rows[Len(df_15m.rows)].high
             prev_low == df_15m.rows[Len(df_15m.rows)].low
             price == df_1m.rows[1].close
         IN  IF price > prev_high
             THEN LET risk == price - prev_low
                  IN  [signal |-> "BUY", entry |-> price, sl |-> prev_low,
                       tp1 |-> price + 2 * risk, tp2 |-> price + 4 * risk]
             ELSE IF price < prev_low
             THEN LET risk == prev_high - price
                  IN  [signal |-> "SELL", entry |-> price, sl |-> prev_high,
                       tp1 |-> price - 2 * risk, tp2 |-> price - 4 * risk]
             ELSE NoSignal

\* Mutant: the SELL targets are put above the entry.
analyze_price_action_SellTargetsUp(df_15m, df_1m) ==
    IF ~df_15m.ok \/ Len(df_15m.rows) < 2 THEN NoSignal
    ELSE IF ~df_1m.ok \/ Len(df_1m.rows) = 0 THEN NoSignal
    ELSE LET prev_high == df_15m.rows[2].high
             prev_low == df_15m.rows[2].low
             price == df_1m.rows[1].close
         IN  IF price > prev_high
             THEN LET risk == price - prev_low
                  IN  [signal |-> "BUY", entry |-> price, sl |-> prev_low,
                       tp1 |-> price + 2 * risk, tp2 |-> price + 4 * risk]
             ELSE IF price < prev_low
             THEN LET risk == prev_high - price
                  IN  [signal |-> "SELL", entry |-> price, sl |-> prev_high,
                       tp1 |-> price + 2 * risk, tp2 |-> price + 4 * risk]
             ELSE NoSignal

analyze_price_action(df_15m, df_1m) ==
    IF ~df_15m.ok \/ Len(df_15m.rows) < 2 THEN NoSignal
    ELSE IF ~df_1m.ok \/ Len(df_1m.rows) = 0 THEN NoSignal
    ELSE LET prev_high == df_15m.rows[2].high
             prev_low == df_15m.rows[2].low
             price == df_1m.rows[1].close
         IN  IF price > prev_high
             THEN LET risk == price - prev_low
                  IN  [signal |-> "BUY", entry |-> price, sl |-> prev_low,
                       tp1 |-> price + 2 * risk, tp2 |-> price + 4 * risk]
             ELSE IF price < prev_low
             THEN LET risk == prev_high - price
                  IN  [signal |-> "SELL", entry |-> price, sl |-> prev_high,
                       tp1 |-> price - 2 * risk, tp2 |-> price - 4 * risk]
             ELSE NoSignal

\* ------------------------------------------------------------- dict helpers
Remove(seq, x) == SelectSeq(seq, LAMBDA y : y # x)
Pop(d, k) == [j \in DOMAIN d \ {k} |-> d[j]]
Put(d, k, v) == [j \in DOMAIN d \cup {k} |-> IF j = k THEN v ELSE d[j]]

\* --------------------------------------------- conditions of the sweep's loop
sl_condition(trade, price) ==
    \/ trade.direction = "BUY" /\ price <= trade.sl
    \/ trade.direction = "SELL" /\ price >= trade.sl
tp2_condition(trade, price) ==
    \/ trade.direction = "BUY" /\ price >= trade.tp2
    \/ trade.direction = "SELL" /\ price <= trade.tp2
\* Mutant: the first target is taken as reached at the entry price.
tp1_condition_AtEntry(trade, price) ==
    \/ trade.direction = "BUY" /\ price >= trade.entry
    \/ trade.direction = "SELL" /\ price <= trade.entry

tp1_condition(trade, price) ==
    \/ trade.direction = "BUY" /\ price >= trade.tp1
    \/ trade.direction = "SELL" /\ price <= trade.tp1

\* The handler check_market_conditions calls for this trade at this price,
\* "continue" when no branch is taken.
Branch(trade, price) ==
    IF sl_condition(trade, price) THEN "handle_sl_hit"
    ELSE IF tp2_condition(trade, price) THEN "handle_tp2_hit"
    ELSE IF ~trade.breakeven /\ tp1_condition(trade, price) THEN "move_to_breakeven"
    ELSE "continue"

Init ==
    /\ active_trades = EmptyDict
    /\ active_order = <<>>
    /\ trade_history = <<>>
    /\ trade_lock = Free
    /\ now = 0
    /\ pc = [t \in Threads |-> "idle"]
    /\ keys = <<>>
    /\ idx = 1
    /\ current_price = 0
    /\ fetched = "pending"
    /\ request = [w \in Webhooks |-> NoRequest]
    /\ served = 0
    /\ opened = 0
    /\ original_sl = EmptyDict
    /\ seen = {}
    /\ calls = [k \in CacheKeys |-> 0]
    /\ fetches = [k \in CacheKeys |-> 0]
    /\ an_in = NoAnalysis
    /\ an_out = NoSignal
    /\ an_seq = 0
    /\ user_alerts = EmptyDict
    /\ previous_trends = EmptyDict
    /\ alert_req = [w \in Webhooks |-> NoAlert]
    /\ alert_served = 0
    /\ alerted_at_start = {}

\* ------------------------------------------------------------------ clock
Tick ==
    /\ now < MaxTime
    /\ now' = now + 1
    /\ UNCHANGED <<active_trades, active_order, trade_history, trade_lock, pc, keys,
                   idx, current_price, fetched, request, served, opened, original_sl, seen>>
    /\ calls' = [k \in CacheKeys |-> 0]
    /\ fetches' = [k \in CacheKeys |-> 0]
    /\ UNCHANGED <<an_in, an_out, an_seq, user_alerts, previous_trends, alert_req,
                   alert_served, alerted_at_start>>

\* ---------------------------------------------------- `with trade_lock:` sites
\* A thread whose pc is one of these is at the `with trade_lock:` statement of
\* that function, about to call the blocking acquire of the Lock.
LockSites == {"check_market_conditions", "handle_sl_hit", "handle_tp2_hit",
              "move_to_breakeven", "webhook"}
Inside(site) ==
    CASE site = "check_market_conditions" -> "list_keys"
      [] site = "handle_sl_hit" -> "in_handle_sl_hit"
      [] site = "handle_tp2_hit" -> "in_handle_tp2_hit"
      [] site = "move_to_breakeven" -> "in_move_to_breakeven"
      [] site = "webhook" -> "in_webhook"

\* Mutant: the caller enters the block whoever holds the lock.
LockAcquire_NoExclusion(th) ==
    /\ pc[th] \in LockSites
    /\ trade_lock' = th
    /\ pc' = [pc EXCEPT ![th] = Inside(pc[th])]
    /\ UNCHANGED <<active_trades, active_order, trade_history, now, keys, idx,
                   current_price, fetched, request, served, opened, original_sl, seen>>
    /\ UNCHANGED aux

\* Lock.acquire(): Lock() is not reentrant, so the call returns only when no
\* thread, the caller included, holds the lock.
LockAcquire(th) ==
    /\ pc[th] \in LockSites
    /\ trade_lock = Free
    /\ trade_lock' = th
    /\ pc' = [pc EXCEPT ![th] = Inside(pc[th])]
    /\ UNCHANGED <<active_trades, active_order, trade_history, now, keys, idx,
                   current_price, fetched, request, served, opened, original_sl, seen>>
    /\ UNCHANGED aux

\* The bodies of the handlers, called with the id the sweep is at.
handle_sl_hit(trade_id) ==
    /\ active_trades' = Pop(active_trades, trade_id)
    /\ active_order' = Remove(active_order, trade_id)
    /\ trade_history' = IF trade_id \in DOMAIN active_trades
                        THEN Append(trade_history, FALSE) ELSE trade_history

handle_tp2_hit(trade_id) ==
    /\ active_trades' = Pop(active_trades, trade_id)
    /\ active_order' = Remove(active_order, trade_id)
    /\ trade_history' = IF trade_id \in DOMAIN active_trades
                        THEN Append(trade_history, TRUE) ELSE trade_history

move_to_breakeven(trade_id) ==
    /\ active_trades' = IF trade_id \in DOMAIN active_trades
                        THEN [active_trades EXCEPT ![trade_id].sl = active_trades[trade_id].entry,
                                                   ![trade_id].breakeven = TRUE]
                        ELSE active_trades
    /\ UNCHANGED <<active_order, trade_history>>

\* Mutant: the entry is stored as the stop.
webhook_insert_EntryAsStop(r) ==
    /\ active_trades' = Put(active_trades, r.id,
                            [symbol |-> r.symbol, direction |-> r.direction,
                             entry |-> r.entry, sl |-> r.entry, tp1 |-> r.tp1,
                             tp2 |-> r.tp2, breakeven |-> FALSE, user |-> r.user])
    /\ active_order' = IF r.id \in DOMAIN active_trades THEN active_order
                       ELSE Append(active_order, r.id)
    /\ UNCHANGED trade_history

\* webhook: active_trades[trade_id] = {...}
webhook_insert(r) ==
    /\ active_trades' = Put(active_trades, r.id,
                            [symbol |-> r.symbol, direction |-> r.direction,
                             entry |-> r.entry, sl |-> r.sl, tp1 |-> r.tp1,
                             tp2 |-> r.tp2, breakeven |-> FALSE, user |-> r.user])
    /\ active_order' = IF r.id \in DOMAIN active_trades THEN active_order
                       ELSE Append(active_order, r.id)
    /\ UNCHANGED trade_history

\* The body of a `with trade_lock:` block that makes no blocking call.
\* A handler's arm runs once LockAcquire has returned at the handler's site;
\* called from check_market_conditions, which holds the lock, it never does.
LockedBody(th) ==
    /\ pc[th] \in {"in_handle_sl_hit", "in_handle_tp2_hit", "in_move_to_breakeven", "in_webhook"}
    /\ CASE pc[th] = "in_handle_sl_hit" ->
              handle_sl_hit(keys[idx]) /\ UNCHANGED <<opened, original_sl>>
         [] pc[th] = "in_handle_tp2_hit" ->
              handle_tp2_hit(keys[idx]) /\ UNCHANGED <<opened, original_sl>>
         [] pc[th] = "in_move_to_breakeven" ->
              move_to_breakeven(keys[idx]) /\ UNCHANGED <<opened, original_sl>>
         [] pc[th] = "in_webhook" ->
              /\ webhook_insert(request[th])
              /\ opened' = opened + 1
              /\ original_sl' = Put(original_sl, request[th].id, request[th].sl)
    /\ pc' = [pc EXCEPT ![th] = IF pc[th] = "in_webhook" THEN "exit_webhook" ELSE "exit_handler"]
    /\ UNCHANGED <<trade_lock, now, keys, idx, current_price, fetched, request, served, seen>>
    /\ UNCHANGED aux

\* Leaving a `with trade_lock:` block: Lock.release().
LockRelease(th) ==
    /\ pc[th] \in {"exit_check_market_conditions", "exit_handler", "exit_webhook"}
    /\ trade_lock = th
    /\ trade_lock' = Free
    /\ pc' = [pc EXCEPT ![th] = IF pc[th] = "exit_handler" THEN "for" ELSE "idle"]
    /\ idx' = IF pc[th] = "exit_handler" THEN idx + 1
              ELSE IF th = Sweep THEN 1 ELSE idx
    /\ keys' = IF pc[th] = "exit_check_market_conditions" THEN <<>> ELSE keys
    /\ seen' = IF pc[th] = "exit_handler" THEN seen \cup {keys[idx]}
               ELSE IF th = Sweep THEN {} ELSE seen
    /\ current_price' = IF pc[th] = "exit_handler" THEN 0 ELSE current_price
    /\ fetched' = IF pc[th] = "exit_check_market_conditions" THEN "pending" ELSE fetched
    /\ request' = IF th \in Webhooks THEN [request EXCEPT ![th] = NoRequest] ELSE request
    /\ UNCHANGED <<active_trades, active_order, trade_history, now, served,
                   opened, original_sl>>
    /\ UNCHANGED aux

\* ------------------------------------------------- check_market_conditions
\* The scheduler's interval job starts a sweep (one instance at a time).
SweepStart ==
    /\ pc[Sweep] = "idle"
    /\ pc' = [pc EXCEPT ![Sweep] = "check_market_conditions"]
    /\ seen' = {}
    /\ UNCHANGED <<active_trades, active_order, trade_history, trade_lock, now, keys,
                   idx, current_price, fetched, request, served, opened, original_sl>>
    /\ alerted_at_start' = {symbol \in DOMAIN user_alerts : Len(user_alerts[symbol]) > 0}
    /\ UNCHANGED <<calls, fetches, an_in, an_out, an_seq, user_alerts, previous_trends,
                   alert_req, alert_served>>

\* for trade_id in list(active_trades.keys())
SweepListKeys ==
    /\ pc[Sweep] = "list_keys"
    /\ keys' = active_order
    /\ idx' = 1
    /\ pc' = [pc EXCEPT ![Sweep] = "for"]
    /\ UNCHANGED <<active_trades, active_order, trade_history, trade_lock, now,
                   current_price, fetched, request, served, opened, original_sl, seen>>
    /\ UNCHANGED aux

\* Next iteration: the call of get_deriv_data(trade['symbol'], '1min') goes
\* out, or the loop is over.  current_price of the last iteration is dead.
SweepLoop ==
    /\ pc[Sweep] = "for"
    /\ pc' = [pc EXCEPT ![Sweep] = IF idx > Len(keys) THEN "exit_check_market_conditions"
                                   ELSE "get_deriv_data"]
    /\ current_price' = 0
    /\ UNCHANGED <<active_trades, active_order, trade_history, trade_lock, now, keys,
                   idx, fetched, request, served, opened, original_sl, seen>>
    /\ UNCHANGED aux

\* Mutant: a failed fetch ends the loop.
OnFetchFailure_Abort == "break"

\* What the loop does with a trade whose frame is None or empty (`continue`).
OnFetchFailure == "continue"

FrameKind(df) == IF ~df.ok THEN "None" ELSE IF Len(df.rows) = 0 THEN "empty" ELSE "rows"

\* get_deriv_data returns df; the rest of the iteration up to the handler call.
SweepFetchReturn ==
    /\ pc[Sweep] = "get_deriv_data"
    /\ \E df \in SweepFrames :
          LET trade == active_trades[keys[idx]]
              failed == ~df.ok \/ Len(df.rows) = 0
              branch == IF failed THEN OnFetchFailure ELSE Branch(trade, df.rows[1].close)
          IN  /\ fetched' = FrameKind(df)
              /\ IF branch = "continue"
                 THEN /\ pc' = [pc EXCEPT ![Sweep] = "for"]
                      /\ idx' = idx + 1
                      /\ seen' = seen \cup {keys[idx]}
                      /\ current_price' = IF failed THEN 0 ELSE df.rows[1].close
                 ELSE IF branch = "break"
                 THEN /\ pc' = [pc EXCEPT ![Sweep] = "exit_check_market_conditions"]
                      /\ UNCHANGED <<idx, seen, current_price>>
                 ELSE /\ pc' = [pc EXCEPT ![Sweep] = branch]
                      /\ current_price' = df.rows[1].close
                      /\ UNCHANGED <<idx, seen>>
    /\ UNCHANGED <<active_trades, active_order, trade_history, trade_lock, now, keys,
                   request, served, opened, original_sl>>
    /\ UNCHANGED aux

\* ----------------------------------------------------------- get_deriv_data
\* convert_symbol(symbol)["category"] of the two instruments of the model.
Category(symbol) == IF symbol = "BTCUSD" THEN "crypto" ELSE "forex"

\* One call of get_deriv_data(symbol, interval).  Outside crypto and synthetic
\* the active symbols are asked for first and an inactive symbol returns None
\* at once; otherwise async_get_deriv_data opens a connection and sends the
\* ticks_history request, whatever was fetched for the same pair before.
get_deriv_data(symbol, interval) ==
    /\ calls[<<symbol, interval>>] < MaxCalls
    /\ calls' = [calls EXCEPT ![<<symbol, interval>>] = @ + 1]
    /\ \E active \in BOOLEAN :
          /\ Category(symbol) \in {"crypto", "synthetic"} => active
          /\ fetches' = IF active THEN [fetches EXCEPT ![<<symbol, interval>>] = @ + 1]
                        ELSE fetches
    /\ UNCHANGED <<active_trades, active_order, trade_history, trade_lock, now, pc, keys,
                   idx, current_price, fetched, request, served, opened, original_sl, seen>>
    /\ UNCHANGED <<an_in, an_out, an_seq, user_alerts, previous_trends, alert_req,
                   alert_served, alerted_at_start>>

\* ------------------------------------------------------------------ webhook
\* A message naming an instrument: analyze_price_action, then the trade id
\* from the clock; without a signal the reply is "No trading opportunity".
WebhookTradeOn(w, incoming_msg, user_number, df_15m, df_1m) ==
    /\ pc[w] = "idle"
    /\ served < MaxRequests
    /\ LET analysis == analyze_price_action(df_15m, df_1m)
       IN  IF analysis.signal = "None"
           THEN UNCHANGED <<pc, request, served>>
           ELSE /\ request' = [request EXCEPT ![w] =
                       [id |-> <<incoming_msg, now>>, symbol |-> incoming_msg,
                        direction |-> analysis.signal, entry |-> analysis.entry,
                        sl |-> analysis.sl, tp1 |-> analysis.tp1,
                        tp2 |-> analysis.tp2, user |-> user_number]]
                /\ pc' = [pc EXCEPT ![w] = "webhook"]
                /\ served' = served + 1
    /\ UNCHANGED <<active_trades, active_order, trade_history, trade_lock, now, keys,
                   idx, current_price, fetched, opened, original_sl, seen>>

WebhookTrade(w) ==
    /\ pc[w] = "idle"
    /\ served < MaxRequests
    /\ \E incoming_msg \in Symbols, user_number \in Users,
          df_15m \in Frames15, df_1m \in Frames1 :
           WebhookTradeOn(w, incoming_msg, user_number, df_15m, df_1m)
    /\ UNCHANGED aux

\* The same request, with what the analysis read and returned kept.
InputKind(df_15m, df_1m) ==
    IF ~df_15m.ok THEN "no_15m"
    ELSE IF Len(df_15m.rows) < 2 THEN "short_15m"
    ELSE IF ~df_1m.ok THEN "no_1m"
    ELSE IF Len(df_1m.rows) = 0 THEN "empty_1m"
    ELSE "ok"
Observed(symbol, df_15m, df_1m) ==
    IF InputKind(df_15m, df_1m) = "ok"
    THEN [symbol |-> symbol, kind |-> "ok", prev_high |-> df_15m.rows[2].high,
          prev_low |-> df_15m.rows[2].low, price |-> df_1m.rows[1].close]
    ELSE [symbol |-> symbol, kind |-> InputKind(df_15m, df_1m), prev_high |-> 0,
          prev_low |-> 0, price |-> 0]

AnalyzeRequest(w) ==
    /\ pc[w] = "idle"
    /\ served < MaxRequests
    /\ \E incoming_msg \in Symbols, user_number \in Users,
          df_15m \in Frames15, df_1m \in Frames1 :
           /\ WebhookTradeOn(w, incoming_msg, user_number, df_15m, df_1m)
           /\ an_in' = Observed(incoming_msg, df_15m, df_1m)
           /\ an_out' = analyze_price_action(df_15m, df_1m)
    /\ an_seq' = 1 - an_seq
    /\ UNCHANGED <<calls, fetches, user_alerts, previous_trends, alert_req,
                   alert_served, alerted_at_start>>

\* ------------------------------------------------------------ webhook: ALERT
\* The ALERT branch of webhook reads and writes user_alerts statement by
\* statement, without a lock; another handler thread may run in between.
main == <<active_trades, active_order, trade_history, trade_lock, now, keys, idx,
          current_price, fetched, request, served, opened, original_sl, seen>>
alert_frame == <<calls, fetches, an_in, an_out, an_seq, previous_trends, alerted_at_start>>

\* "ALERT <symbol>" arrives from user_number.
AlertStart(w) ==
    /\ pc[w] = "idle"
    /\ alert_served < MaxAlerts
    /\ \E symbol \in Symbols, user_number \in AlertUsers :
          alert_req' = [alert_req EXCEPT ![w] = [symbol |-> symbol, user |-> user_number]]
    /\ alert_served' = alert_served + 1
    /\ pc' = [pc EXCEPT ![w] = "alert_symbol_check"]
    /\ UNCHANGED <<main, alert_frame, user_alerts>>

\* if symbol not in user_alerts
AlertSymbolCheck(w) ==
    /\ pc[w] = "alert_symbol_check"
    /\ pc' = [pc EXCEPT ![w] = IF alert_req[w].symbol \in DOMAIN user_alerts
                               THEN "alert_user_check" ELSE "alert_new_list"]
    /\ UNCHANGED <<main, alert_frame, user_alerts, alert_req, alert_served>>

\* user_alerts[symbol] = []
AlertNewList(w) ==
    /\ pc[w] = "alert_new_list"
    /\ user_alerts' = Put(user_alerts, alert_req[w].symbol, <<>>)
    /\ pc' = [pc EXCEPT ![w] = "alert_user_check"]
    /\ UNCHANGED <<main, alert_frame, alert_req, alert_served>>

\* if user_number not in user_alerts[symbol]; the else branch replies
\* "Already receiving alerts" and returns.
AlertUserCheck(w) ==
    /\ pc[w] = "alert_user_check"
    /\ LET subscribers == user_alerts[alert_req[w].symbol]
           present == \E i \in 1..Len(subscribers) : subscribers[i] = alert_req[w].user
       IN  /\ pc' = [pc EXCEPT ![w] = IF present THEN "idle" ELSE "alert_append"]
           /\ alert_req' = IF present THEN [alert_req EXCEPT ![w] = NoAlert] ELSE alert_req
    /\ UNCHANGED <<main, alert_frame, user_alerts, alert_served>>

\* user_alerts[symbol].append(user_number); replies "Alerts activated".
AlertAppend(w) ==
    /\ pc[w] = "alert_append"
    /\ user_alerts' = [user_alerts EXCEPT ![alert_req[w].symbol] = Append(@, alert_req[w].user)]
    /\ alert_req' = [alert_req EXCEPT ![w] = NoAlert]
    /\ pc' = [pc EXCEPT ![w] = "idle"]
    /\ UNCHANGED <<main, alert_frame, alert_served>>

\* ------------------------------------------------------------ specification
SweepStep ==
    \/ SweepStart
    \/ LockAcquire(Sweep)
    \/ SweepListKeys
    \/ SweepLoop
    \/ SweepFetchReturn
    \/ LockedBody(Sweep)
    \/ LockRelease(Sweep)

WebhookStep(w) ==
    \/ LockAcquire(w)
    \/ LockedBody(w)
    \/ LockRelease(w)

Next ==
    \/ Tick
    \/ SweepStart
    \/ SweepListKeys
    \/ SweepLoop
    \/ SweepFetchReturn
    \/ \E th \in Threads : LockAcquire(th)
    \/ \E th \in Threads : LockedBody(th)
    \/ \E th \in Threads : LockRelease(th)
    \/ \E w \in Webhooks : WebhookTrade(w)

Spec == Init /\ [][Next]_vars

\* The scheduler runs the sweep's thread and the server runs every handler
\* thread; a fetch returns or fails.  Requests arrive when they arrive.
FairSpec ==
    /\ Spec
    /\ WF_vars(SweepStep)
    /\ \A w \in Webhooks : WF_vars(WebhookStep(w))

\* The same with a lock that serves every thread that keeps asking for it.
StrongFairSpec ==
    /\ Spec
    /\ WF_vars(SweepStep)
    /\ \A w \in Webhooks : SF_vars(WebhookStep(w))

\* Trade creation alone on one handler thread, with the analysis of every
\* request kept.
AnalyzeNext ==
    \/ Tick
    \/ AnalyzeRequest("w1")
    \/ LockAcquire("w1")
    \/ LockedBody("w1")
    \/ LockRelease("w1")

AnalyzeSpec == Init /\ [][AnalyzeNext]_vars

\* ALERT messages and the sweep.
AlertNext ==
    \/ \E w \in Webhooks : AlertStart(w)
    \/ \E w \in Webhooks : AlertSymbolCheck(w)
    \/ \E w \in Webhooks : AlertNewList(w)
    \/ \E w \in Webhooks : AlertUserCheck(w)
    \/ \E w \in Webhooks : AlertAppend(w)
    \/ SweepStart
    \/ LockAcquire(Sweep)
    \/ SweepListKeys
    \/ SweepLoop
    \/ LockRelease(Sweep)

AlertSpec == Init /\ [][AlertNext]_vars

\* Calls of get_deriv_data against the clock.
CacheNext ==
    \/ Tick
    \/ \E symbol \in Symbols, interval \in Intervals : get_deriv_data(symbol, interval)

CacheSpec == Init /\ [][CacheNext]_vars

TypeOK ==
    /\ DOMAIN active_trades \subseteq TradeIds
    /\ trade_lock \in {Free} \cup Threads
    /\ now \in 0..MaxTime
    /\ \A i \in 1..Len(trade_history) : trade_history[i] \in BOOLEAN

\* ------------------------------------------------------------------- claims
Last(seq) == seq[Len(seq)]
HandlerSites == {"handle_sl_hit", "handle_tp2_hit", "move_to_breakeven"}
\* The sweep has fetched current_price for trade tid and is calling a handler.
PriceApplied(tid) ==
    /\ pc[Sweep] \in HandlerSites
    /\ keys[idx] = tid
    /\ tid \in DOMAIN active_trades

\* C1: a fetched price at or beyond the stop of an open trade leads to the
\* trade being removed from active_trades with False appended to
\* trade_history, whatever the other thresholds.
C1_StopLossCloses ==
    \A tid \in TradeIds :
        (PriceApplied(tid) /\ sl_condition(active_trades[tid], current_price))
        ~> (tid \notin DOMAIN active_trades /\ Len(trade_history) > 0
            /\ Last(trade_history) = FALSE)

\* C2: with the stop condition false, a fetched price at or beyond
\* take-profit 2 leads to the trade being removed with True appended, and
\* not to the breakeven write.
C2_TakeProfit2Closes ==
    \A tid \in TradeIds :
        (/\ PriceApplied(tid)
         /\ ~sl_condition(active_trades[tid], current_price)
         /\ tp2_condition(active_trades[tid], current_price))
        ~> (tid \notin DOMAIN active_trades /\ Len(trade_history) > 0
            /\ Last(trade_history) = TRUE)

\* C3: every sweep that starts returns and leaves trade_lock released.
C3_SweepCompletes ==
    (pc[Sweep] # "idle") ~> (pc[Sweep] = "idle" /\ trade_lock # Sweep)

\* C4: no thread holds trade_lock while its get_deriv_data call is out.
C4_NoFetchUnderLock ==
    \A th \in Threads : pc[th] = "get_deriv_data" => trade_lock # th

\* C5: seen with trade_lock free, every trade ever inserted is either still
\* open or has exactly one entry in trade_history.
C5_OpenOrRecorded ==
    trade_lock = Free =>
        opened = Cardinality(DOMAIN active_trades) + Len(trade_history)

\* C6: an open trade without breakeven carries the stop stored at creation,
\* one with breakeven carries its entry as stop, and breakeven never goes
\* from true back to false.
C6_StopOfOpenTrade ==
    \A tid \in DOMAIN active_trades :
        LET trade == active_trades[tid]
        IN  /\ ~trade.breakeven => trade.sl = original_sl[tid]
            /\ trade.breakeven => trade.sl = trade.entry
C6_BreakevenMonotone ==
    \A tid \in DOMAIN active_trades \cap DOMAIN active_trades' :
        (active_trades[tid].breakeven /\ original_sl'[tid] = original_sl[tid]
         /\ opened' = opened)
        => active_trades'[tid].breakeven
C6_Breakeven == [](C6_StopOfOpenTrade) /\ [][C6_BreakevenMonotone]_vars

\* C6 witness: the sweep has fetched a breakeven price for an open trade
\* that still carries its creation stop, different from its entry.
C6_Witness ==
    \E tid \in DOMAIN active_trades :
        /\ pc[Sweep] = "move_to_breakeven" /\ keys[idx] = tid
        /\ ~active_trades[tid].breakeven
        /\ active_trades[tid].sl = original_sl[tid]
        /\ active_trades[tid].sl # active_trades[tid].entry

\* C7: a price in the breakeven band applied to an open trade without
\* breakeven leads to the sweep finishing with the trade open, stop at
\* entry and breakeven set (a second such price then changes nothing).
C7_BreakevenApplied ==
    \A tid \in TradeIds :
        (PriceApplied(tid) /\ pc[Sweep] = "move_to_breakeven")
        ~> (/\ tid \in DOMAIN active_trades
            /\ active_trades[tid].breakeven
            /\ active_trades[tid].sl = active_trades[tid].entry)

\* C8: a step that changes active_trades or trade_history is a step of the
\* thread holding trade_lock, and at most one thread is inside a
\* `with trade_lock:` block.
InsideLock(th) ==
    pc[th] \in {"list_keys", "for", "get_deriv_data", "exit_check_market_conditions",
                "in_handle_sl_hit", "in_handle_tp2_hit", "in_move_to_breakeven",
                "exit_handler", "in_webhook", "exit_webhook"} \cup
               (IF th = Sweep THEN HandlerSites ELSE {})
C8_OneInside ==
    \A th \in Threads : InsideLock(th) => trade_lock = th
C8_MutatorHoldsLock ==
    (active_trades' # active_trades \/ trade_history' # trade_history)
    => /\ trade_lock \in Threads
       /\ trade_lock' = trade_lock
       /\ pc'[trade_lock] # pc[trade_lock]
       /\ \A th \in Threads \ {trade_lock} : pc'[th] = pc[th]
C8_MutationUnderLock == [](C8_OneInside) /\ [][C8_MutatorHoldsLock]_vars

\* C8 witness: one webhook thread has inserted its trade and still holds
\* the lock while the other one waits at its `with trade_lock:`.
C8_Witness ==
    \E w \in Webhooks, v \in Webhooks :
        /\ w # v
        /\ pc[w] = "exit_webhook" /\ trade_lock = w
        /\ request[w].id \in DOMAIN active_trades
        /\ pc[v] = "webhook"

\* C9: the insertion of a created trade adds one entry to active_trades: its
\* id is not the id of a trade already open.
C9_InsertAddsEntry ==
    [][\A w \in Webhooks :
          (pc[w] = "in_webhook" /\ pc'[w] = "exit_webhook")
          => (/\ request[w].id \notin DOMAIN active_trades
              /\ Cardinality(DOMAIN active_trades') = Cardinality(DOMAIN active_trades) + 1)]_vars

\* C10: when the fetch for a trade returns None or an empty frame the sweep
\* goes on to the next trade with the registry unchanged, and a sweep that
\* leaves its loop has passed every trade it listed.
C10_SkipStep ==
    (pc[Sweep] = "get_deriv_data" /\ pc'[Sweep] # "get_deriv_data"
     /\ fetched' \in {"None", "empty"})
    => /\ pc'[Sweep] = "for"
       /\ idx' = idx + 1
       /\ keys' = keys
       /\ active_trades' = active_trades
       /\ trade_history' = trade_history
C10_AllPassed ==
    pc[Sweep] = "exit_check_market_conditions"
    => seen = {keys[i] : i \in 1..Len(keys)}
C10_FailedFetchSkips == [](C10_AllPassed) /\ [][C10_SkipStep]_vars

\* C10 witness: the fetch for the first of two listed trades failed and the
\* sweep has gone on to fetch for the second.
C10_Witness ==
    /\ pc[Sweep] = "get_deriv_data"
    /\ Len(keys) = 2 /\ idx = 2
    /\ fetched \in {"None", "empty"}
    /\ seen = {keys[1]}
    /\ keys[1] \in DOMAIN active_trades

\* C11: the get_deriv_data calls made for one (symbol, interval) pair within
\* one second, well inside the 60 s window, send at most one candle request.
C11_OneFetchPerWindow ==
    \A k \in CacheKeys : fetches[k] <= 1

\* C12: with enough data, analyze_price_action gives no signal exactly when
\* prev_low <= price <= prev_high (the bounds included); above prev_high it
\* gives BUY and below prev_low SELL.
C12_NoSignalInsideRange ==
    an_in.kind = "ok" =>
        /\ (an_in.prev_low <= an_in.price /\ an_in.price <= an_in.prev_high)
              <=> an_out.signal = "None"
        /\ an_in.price > an_in.prev_high => an_out.signal = "BUY"
        /\ an_in.price < an_in.prev_low => an_out.signal = "SELL"

\* C12 witness: a close equal to the previous high, above the previous low,
\* has been analysed and gave no signal.
C12_Witness ==
    /\ an_in.kind = "ok" /\ an_seq = 1
    /\ an_in.price = an_in.prev_high /\ an_in.prev_low < an_in.prev_high
    /\ an_out.signal = "None"

\* C13: a BUY signal has entry = price, stop = prev_low and targets at
\* entry + 2 and + 4 times (entry - stop); a SELL signal has stop = prev_high
\* and targets at entry - 2 and - 4 times (stop - entry); so the second
\* target is twice as far from the entry as the first.
C13_SignalLevels ==
    /\ an_out.signal = "BUY" =>
          /\ an_out.entry = an_in.price /\ an_out.sl = an_in.prev_low
          /\ an_out.tp1 = an_in.price + 2 * (an_in.price - an_in.prev_low)
          /\ an_out.tp2 = an_in.price + 4 * (an_in.price - an_in.prev_low)
    /\ an_out.signal = "SELL" =>
          /\ an_out.entry = an_in.price /\ an_out.sl = an_in.prev_high
          /\ an_out.tp1 = an_in.price - 2 * (an_in.prev_high - an_in.price)
          /\ an_out.tp2 = an_in.price - 4 * (an_in.prev_high - an_in.price)
    /\ an_out.signal # "None" =>
          an_out.tp2 - an_out.entry = 2 * (an_out.tp1 - an_out.entry)

\* C13 witness: previous candle high 2, low 1 and close 3 gave BUY with
\* stop 1, risk 2 and targets 7 and 11.
C13_Witness ==
    /\ an_in.kind = "ok" /\ an_in.prev_high = 2 /\ an_in.prev_low = 1 /\ an_in.price = 3
    /\ an_out = [signal |-> "BUY", entry |-> 3, sl |-> 1, tp1 |-> 7, tp2 |-> 11]

\* C14: an absent or too short frame gives no signal, and a request whose
\* analysis gave no signal changes neither active_trades nor trade_history
\* and leaves no insertion pending.
C14_InsufficientIsNone ==
    an_in.kind \in {"no_15m", "short_15m", "no_1m", "empty_1m"} => an_out.signal = "None"
C14_NoneCreatesNothing ==
    (an_seq' # an_seq /\ an_out'.signal = "None")
    => /\ active_trades' = active_trades
       /\ active_order' = active_order
       /\ trade_history' = trade_history
       /\ opened' = opened
       /\ pc' = pc
       /\ request' = request
C14_FailClosed == [](C14_InsufficientIsNone) /\ [][C14_NoneCreatesNothing]_vars

\* C14 witness: with one trade open, a request whose analysis frame had a
\* single candle was answered without a second trade or a pending insertion.
C14_Witness ==
    /\ an_in.kind = "short_15m" /\ an_out.signal = "None"
    /\ Cardinality(DOMAIN active_trades) = 1 /\ opened = 1
    /\ \A w \in Webhooks : pc[w] = "idle"

\* C15: a sweep that has ended has a trend stored for every instrument that
\* had a subscriber when it began (first observation: store, do not notify).
C15_TrendStored ==
    pc[Sweep] = "exit_check_market_conditions"
    => alerted_at_start \subseteq DOMAIN previous_trends

\* C16: no list of user_alerts holds a subscriber twice.
C16_NoDuplicateSubscriber ==
    \A symbol \in DOMAIN user_alerts :
        \A i, j \in 1..Len(user_alerts[symbol]) :
            user_alerts[symbol][i] = user_alerts[symbol][j] => i = j

\* C17: a fetched price that meets none of the three conditions leaves the
\* trade, the open set and trade_history as they were and the sweep goes on;
\* and no step of the sweep changes an open trade other than the one it is at.
NoConditionMet(trade, price) ==
    /\ ~(trade.direction = "BUY" /\ price <= trade.sl)
    /\ ~(trade.direction = "SELL" /\ price >= trade.sl)
    /\ ~(trade.direction = "BUY" /\ price >= trade.tp2)
    /\ ~(trade.direction = "SELL" /\ price <= trade.tp2)
    /\ ~(~trade.breakeven /\ trade.direction = "BUY" /\ price >= trade.tp1)
    /\ ~(~trade.breakeven /\ trade.direction = "SELL" /\ price <= trade.tp1)
C17_NeutralStep ==
    (/\ pc[Sweep] = "get_deriv_data" /\ pc'[Sweep] # "get_deriv_data"
     /\ fetched' = "rows"
     /\ NoConditionMet(active_trades[keys[idx]], current_price'))
    => /\ active_trades' = active_trades
       /\ active_order' = active_order
       /\ trade_history' = trade_history
       /\ pc'[Sweep] = "for"
C17_OthersUntouched ==
    (pc'[Sweep] # pc[Sweep] /\ pc[Sweep] \notin {"idle", "check_market_conditions", "list_keys"}
     /\ idx <= Len(keys))
    => \A tid \in DOMAIN active_trades \ {keys[idx]} :
          tid \in DOMAIN active_trades' /\ active_trades'[tid] = active_trades[tid]
C17_Frame == [][C17_NeutralStep /\ C17_OthersUntouched]_vars

\* C17 witness: of two open trades the first got a price that meets no
\* condition, and the sweep is about to go on to the second.
C17_Witness ==
    /\ pc[Sweep] = "for" /\ fetched = "rows"
    /\ Len(keys) = 2 /\ idx = 2
    /\ DOMAIN active_trades = {keys[1], keys[2]}
    /\ NoConditionMet(active_trades[keys[1]], current_price)
    /\ current_price # active_trades[keys[1]].entry

\* C18: while the sweep is in a handler call, before the handler's write,
\* the id it passed is in active_trades and the trade stored under it still
\* meets the condition the sweep checked at the fetched price.
C18_TradeStillOpen ==
    pc[Sweep] \in HandlerSites \cup {"in_handle_sl_hit", "in_handle_tp2_hit",
                                     "in_move_to_breakeven"}
    => /\ keys[idx] \in DOMAIN active_trades
       /\ LET trade == active_trades[keys[idx]]
              buy == trade.direction = "BUY"
              stop == IF buy THEN current_price <= trade.sl ELSE current_price >= trade.sl
              win == IF buy THEN current_price >= trade.tp2 ELSE current_price <= trade.tp2
              first == IF buy THEN current_price >= trade.tp1 ELSE current_price <= trade.tp1
          IN  /\ pc[Sweep] \in {"handle_sl_hit", "in_handle_sl_hit"} => stop
              /\ pc[Sweep] \in {"handle_tp2_hit", "in_handle_tp2_hit"} => ~stop /\ win
              /\ pc[Sweep] \in {"move_to_breakeven", "in_move_to_breakeven"}
                    => ~stop /\ ~win /\ first /\ ~trade.breakeven

\* C18 witness: the sweep is in a handler call for a trade while a webhook
\* thread waits at the lock with another trade under the same id.
C18_Witness ==
    /\ pc[Sweep] \in HandlerSites
    /\ \E w \in Webhooks :
          /\ pc[w] = "webhook"
          /\ request[w].id = keys[idx]
          /\ request[w].direction # active_trades[keys[idx]].direction

\* C19: a webhook request that has its signal and waits for trade_lock gets
\* the lock and inserts its trade.
C19_InsertEventually ==
    \A w \in Webhooks : (pc[w] = "webhook") ~> (pc[w] = "exit_webhook")

\* C20: the levels of every open trade are ordered, BUY upwards and SELL
\* downwards, the stop strictly beyond the entry until breakeven puts it on
\* the entry; so no price meets the stop and the second target together.
C20_LevelsOrdered ==
    \A tid \in DOMAIN active_trades :
        LET trade == active_trades[tid]
        IN  /\ trade.direction = "BUY" =>
                  /\ trade.sl <= trade.entry
                  /\ trade.entry < trade.tp1 /\ trade.tp1 < trade.tp2
            /\ trade.direction = "SELL" =>
                  /\ trade.tp2 < trade.tp1 /\ trade.tp1 < trade.entry
                  /\ trade.entry <= trade.sl
            /\ trade.sl = trade.entry <=> trade.breakeven
            /\ \A price \in Prices :
                  /\ ~(trade.direction = "BUY" /\ price <= trade.sl /\ price >= trade.tp2)
                  /\ ~(trade.direction = "SELL" /\ price >= trade.sl /\ price <= trade.tp2)

\* C20 witness: a BUY trade and a SELL trade are open, each with a stop away
\* from its entry.
C20_Witness ==
    \E a \in DOMAIN active_trades, b \in DOMAIN active_trades :
        /\ active_trades[a].direction = "BUY" /\ active_trades[a].sl < active_trades[a].entry
        /\ active_trades[b].direction = "SELL" /\ active_trades[b].sl > active_trades[b].entry

\* C21: a trade whose price has reached take-profit 1 gets its stop moved to
\* its entry, so that from then on the stop-loss branch is taken by exactly
\* the prices at or beyond the entry on the losing side; such a price applied
\* to a trade with breakeven leads to the trade being removed with False
\* appended to trade_history, and True is appended only by a price at or
\* beyond take-profit 2.
C21_LosingSideOfEntry(trade, price) ==
    \/ trade.direction = "BUY" /\ price <= trade.entry
    \/ trade.direction = "SELL" /\ price >= trade.entry
C21_StopAtEntry(tid) ==
    /\ tid \in DOMAIN active_trades
    /\ \A price \in Prices :
           Branch(active_trades[tid], price) = "handle_sl_hit"
           <=> C21_LosingSideOfEntry(active_trades[tid], price)
C21_WinOnlyAtTp2 ==
    (Len(trade_history') > Len(trade_history) /\ Last(trade_history'))
    => /\ pc[Sweep] = "handle_tp2_hit"
       /\ keys[idx] \in DOMAIN active_trades
       /\ tp2_condition(active_trades[keys[idx]], current_price)
====
